---- MODULE Spec2Model ----
(***************************************************************************)
(* AllPlot (src/src/AllPlot.cpp): the ride plot of GoldenCheetah.          *)
(*                                                                         *)
(* Representation of the C++ doubles:                                      *)
(*   - a sample time is a whole number of half seconds (time 3 = 1.5 s),   *)
(*     so that ceil() of the last sample time is not the identity;         *)
(*   - a smoothed value (a running total divided by a sample count) is an  *)
(*     exact fraction <<n, d>> in lowest terms, d > 0;                     *)
(*   - a time on the x axis is a whole number of 1/60 minutes (secs/60.0); *)
(*   - a speed or a distance is a whole number of 1e-8 km or miles, an     *)
(*     altitude a whole number of 1e-7 m or feet, so that the products by  *)
(*     MILES_PER_KM and FEET_PER_M are exact.                              *)
(***************************************************************************)
EXTENDS Integers, Sequences, FiniteSets, TLC

\* ------------------------------------------------------------- bounds
\* The longest ride file of the generated rides, in samples.
MaxPoints == 2
\* The latest sample time of the generated rides, in seconds.
MaxSecs == 2
\* The largest value the smoothing control is set to.
MaxSmooth == 2

\* ------------------------------------------------- program constants
\* smooth(30) in the constructor's initialiser list.
DefaultSmooth == 30
\* 7*24*60*60, the longest ride recalc() plots.
MaxRideSecs == 604800
\* MILES_PER_KM 0.62137119 as MilesPerKm / UnitKm.
MilesPerKm == 62137119
UnitKm == 100000000
\* FEET_PER_M 3.2808399 as FeetPerM / UnitM.
FeetPerM == 32808399
UnitM == 10000000

Series == {"watts", "hr", "speed", "cad", "alt"}

\* ------------------------------------------------------------ doubles
RECURSIVE GCD(_, _)
GCD(a, b) == IF b = 0 THEN a ELSE GCD(b, a % b)

Abs(n) == IF n < 0 THEN -n ELSE n

\* n / d as a double, d > 0.
Frac(n, d) ==
    LET g == GCD(Abs(n), d)
    IN  <<n \div g, d \div g>>

Zero == <<0, 1>>

\* a > b on doubles.
FracGT(a, b) == a[1] * b[2] > b[1] * a[2]

\* static inline double max(double a, double b)
max(a, b) == IF FracGT(a, b) THEN a ELSE b

\* max(0, v) on a whole number v, as setData uses it.
max0(v) == IF 0 > v THEN 0 ELSE v

\* secs as a sample time; ceil() of a sample time, in seconds.
SecsToTime(secs) == 2 * secs
CeilSecs(t) == (t + 1) \div 2

\* QVector<double>(n): n elements, each value-initialised.
ZeroVector(n) == [k \in 1..n |-> 0]
ZeroFracVector(n) == [k \in 1..n |-> Zero]

\* ------------------------------------------------------ the ride items
\* A RideFilePoint; interval is the interval number of the sample.
RidePoint(t, w, h, s, c, a, i, d) ==
    [secs |-> t, watts |-> w, hr |-> h, kph |-> s, cad |-> c, alt |-> a,
     interval |-> i, km |-> d]

DataPresent(w, h, s, c, a) ==
    [watts |-> w, hr |-> h, kph |-> s, cad |-> c, alt |-> a]

\* A RideItem: hasRide is (ride != NULL); hasZones is (zones && *zones);
\* zoneRange is zoneRange(); zoneLows and zoneNames are getZoneLows and
\* getZoneNames of that zone range.
RideItem(id, hasRide, present, points, hasZones, zoneRange, zoneLows) ==
    [id |-> id, hasRide |-> hasRide, dataPresent |-> present, points |-> points,
     hasZones |-> hasZones, zoneRange |-> zoneRange, zoneLows |-> zoneLows,
     zoneNames |-> [z \in 1..Len(zoneLows) |-> z]]

\* rideItem(NULL)
NullItem == RideItem(0, FALSE, DataPresent(FALSE, FALSE, FALSE, FALSE, FALSE),
                     <<>>, FALSE, -1, <<>>)

\* A sample time later than recalc() plots: 7 days and half a second.
LongTime == SecsToTime(MaxRideSecs) + 1

\* The power combo box and the zones: rides of one sample at time 0, with
\* and without power, and every way a ride item can lack zones.
AllPresent == DataPresent(TRUE, TRUE, TRUE, TRUE, TRUE)
NonePresent == DataPresent(FALSE, FALSE, FALSE, FALSE, FALSE)
PowerOnly == DataPresent(TRUE, FALSE, FALSE, FALSE, FALSE)
HrOnly == DataPresent(FALSE, TRUE, FALSE, FALSE, FALSE)
PowerAndHr == DataPresent(TRUE, TRUE, FALSE, FALSE, FALSE)

StartPoint == RidePoint(0, 3, 2, 1, 1, 1, 0, 0)
LongPoint == RidePoint(LongTime, 3, 7, 0, 0, 0, 1, 1)

ZoneRides ==
    { RideItem(1, FALSE, NonePresent, <<>>, TRUE, 0, <<0, 100>>),
      RideItem(2, TRUE, PowerAndHr, <<>>, TRUE, 0, <<0, 100>>),
      RideItem(3, TRUE, PowerAndHr, <<StartPoint>>, TRUE, 0, <<0, 100, 200>>),
      RideItem(4, TRUE, HrOnly, <<StartPoint>>, TRUE, 0, <<0, 150>>),
      RideItem(5, TRUE, PowerOnly, <<LongPoint>>, TRUE, 1, <<0, 120>>),
      RideItem(6, TRUE, PowerOnly, <<StartPoint>>, FALSE, -1, <<>>),
      RideItem(7, TRUE, PowerOnly, <<StartPoint>>, TRUE, -1, <<>>),
      RideItem(8, TRUE, PowerOnly, <<StartPoint>>, TRUE, 0, <<>>),
      RideItem(9, TRUE, PowerOnly, <<StartPoint>>, TRUE, 0, <<50>>) }

\* The axes: rides whose series have different maxima.
AxisRides ==
    { RideItem(11, FALSE, NonePresent, <<>>, FALSE, -1, <<>>),
      RideItem(12, TRUE, AllPresent,
               << RidePoint(1, 4, 2, 1, 3, 1, 1, 1),
                  RidePoint(4, 2, 6, 1, 1, 0, 2, 2) >>, FALSE, -1, <<>>),
      RideItem(13, TRUE, DataPresent(FALSE, FALSE, TRUE, TRUE, TRUE),
               << RidePoint(2, 0, 0, 1, 5, 1, 0, 1) >>, FALSE, -1, <<>>),
      RideItem(14, TRUE, PowerAndHr, <<LongPoint>>, FALSE, -1, <<>>) }

\* The ride list: the rides above that have no zones, a ride without
\* samples, and a ride whose one sample, at the default smoothing's 30
\* seconds, opens interval 1.
Catalogue ==
    AxisRides \cup
    { RideItem(15, TRUE, AllPresent, <<>>, FALSE, -1, <<>>),
      RideItem(16, TRUE, PowerOnly,
               << RidePoint(SecsToTime(DefaultSmooth), 6, 0, 0, 0, 0, 1, 3) >>,
               FALSE, -1, <<>>) }

\* The values a generated sample takes: watts, hr, kph, cad, alt, interval, km.
SampleRows ==
    { <<0, 0, 0, 0, 0, 0, 0>>,
      <<4, 2, 1, 3, 1, 1, 1>>,
      <<-1, 1, 2, 0, -1, 1, 2>> }

GeneratedPoints ==
    { RidePoint(t, r[1], r[2], r[3], r[4], r[5], r[6], r[7]) :
        t \in 0..SecsToTime(MaxSecs), r \in SampleRows }

\* Ride files are written in time order.
TimeOrdered(points) ==
    \A k \in 1..(Len(points) - 1) : points[k].secs <= points[k + 1].secs

GeneratedRides ==
    { points \in UNION { [1..n -> GeneratedPoints] : n \in 1..MaxPoints } :
        TimeOrdered(points) }

GeneratedPresent ==
    { DataPresent(TRUE, TRUE, TRUE, TRUE, TRUE),
      DataPresent(FALSE, TRUE, FALSE, FALSE, TRUE) }

GeneratedItems ==
    { RideItem(10, TRUE, present, points, FALSE, -1, <<>>) :
        present \in GeneratedPresent, points \in GeneratedRides }

\* -------------------------------------------------------------- state
VARIABLES
    library,         \* the ride items the application can hand to setData
    useMetricUnits, rideItem, smooth, bydist, shade_zones,
    timeArray, wattsArray, hrArray, speedArray, cadArray, altArray,
    interArray, distanceArray, arrayLength,
    curve,           \* wattsCurve, hrCurve, speedCurve, cadCurve, altCurve
    grid,            \* grid->isVisible()
    title,           \* the plot's title
    xBottom, xTitle, yLeft, yLeftTitle, yRightEnabled, yRightTitle,
    d_mrk,           \* the attached interval markers
    zoneLabels,      \* the attached zone labels
    powerId          \* history: the id of the last showPower, -1 before it

vars == <<library, useMetricUnits, rideItem, smooth, bydist, shade_zones,
          timeArray, wattsArray, hrArray, speedArray, cadArray, altArray,
          interArray, distanceArray, arrayLength, curve, grid, title,
          xBottom, xTitle, yLeft, yLeftTitle, yRightEnabled, yRightTitle,
          d_mrk, zoneLabels, powerId>>

\* The AllPlot object: its fields as one record, so that a method is a
\* function from the object before the call to the object after it.
This ==
    [useMetricUnits |-> useMetricUnits, rideItem |-> rideItem,
     smooth |-> smooth, bydist |-> bydist, shade_zones |-> shade_zones,
     timeArray |-> timeArray, wattsArray |-> wattsArray, hrArray |-> hrArray,
     speedArray |-> speedArray, cadArray |-> cadArray, altArray |-> altArray,
     interArray |-> interArray, distanceArray |-> distanceArray,
     arrayLength |-> arrayLength, curve |-> curve, grid |-> grid,
     title |-> title, xBottom |-> xBottom, xTitle |-> xTitle, yLeft |-> yLeft,
     yLeftTitle |-> yLeftTitle, yRightEnabled |-> yRightEnabled,
     yRightTitle |-> yRightTitle, d_mrk |-> d_mrk, zoneLabels |-> zoneLabels]

\* The object after a call: every field takes its value in p.
Becomes(p) ==
    /\ useMetricUnits' = p.useMetricUnits
    /\ rideItem' = p.rideItem
    /\ smooth' = p.smooth
    /\ bydist' = p.bydist
    /\ shade_zones' = p.shade_zones
    /\ timeArray' = p.timeArray
    /\ wattsArray' = p.wattsArray
    /\ hrArray' = p.hrArray
    /\ speedArray' = p.speedArray
    /\ cadArray' = p.cadArray
    /\ altArray' = p.altArray
    /\ interArray' = p.interArray
    /\ distanceArray' = p.distanceArray
    /\ arrayLength' = p.arrayLength
    /\ curve' = p.curve
    /\ grid' = p.grid
    /\ title' = p.title
    /\ xBottom' = p.xBottom
    /\ xTitle' = p.xTitle
    /\ yLeft' = p.yLeft
    /\ yLeftTitle' = p.yLeftTitle
    /\ yRightEnabled' = p.yRightEnabled
    /\ yRightTitle' = p.yRightTitle
    /\ d_mrk' = p.d_mrk
    /\ zoneLabels' = p.zoneLabels

\* The sample array behind a curve.
ArrayOf(p, c) ==
    CASE c = "watts" -> p.wattsArray
      [] c = "hr"    -> p.hrArray
      [] c = "speed" -> p.speedArray
      [] c = "cad"   -> p.cadArray
      [] c = "alt"   -> p.altArray

\* A QwtPlotCurve: attached to the plot or not, visible or not, its data.
NewCurve == [attached |-> FALSE, visible |-> TRUE, x |-> <<>>, y |-> <<>>]

\* An axis scale: Qwt's own until setAxisScale(axis, 0.0, hi).
AutoScale(hi) == [set |-> FALSE, hi |-> hi]
AxisScale(hi) == [set |-> TRUE, hi |-> hi]

\* --------------------------------------------------------- shadeZones
\* shadeZones without its test of the power samples.
shadeZonesNoData(p) == p.shade_zones

shadeZones(p) == p.shade_zones /\ p.wattsArray # <<>>

\* ------------------------------------------- AllPlotBackground::draw
\* The zones draw() visits to paint a band: none unless the gate passes.
\* (Whether fillRect paints a visited band is Qwt's pixel geometry.)
BackgroundBands(p) ==
    IF p.rideItem = NullItem
    THEN {}
    ELSE IF /\ shadeZones(p)
            /\ p.rideItem.hasZones
            /\ p.rideItem.zoneRange >= 0
         THEN LET num_zones == Len(p.rideItem.zoneLows)
              IN  IF num_zones > 0 THEN 0..(num_zones - 1) ELSE {}
         ELSE {}

\* ------------------------------------------------- AllPlotZoneLabel
\* The label of zone zone_number as its constructor leaves it: watts and
\* text are assigned (assigned = TRUE) only under the constructor's test;
\* otherwise watts is never initialised and text is empty.
AllPlotZoneLabel(p, zone_number) ==
    LET item == p.rideItem
        blank == [zone_number |-> zone_number, assigned |-> FALSE,
                  watts |-> Zero, text |-> 0]
    IN  IF item = NullItem
        THEN blank
        ELSE IF shadeZones(p) /\ item.hasZones /\ item.zoneRange >= 0
             THEN LET zone_lows == item.zoneLows
                      num_zones == Len(zone_lows)
                      z == zone_number + 1
                  IN  IF zone_number < num_zones
                      THEN [zone_number |-> zone_number,
                            assigned |-> TRUE,
                            watts |->
                               IF zone_number + 1 < num_zones
                               THEN Frac(zone_lows[z] + zone_lows[z + 1], 2)
                               ELSE IF zone_number > 0
                                    THEN Frac(3 * zone_lows[z] - zone_lows[z - 1], 2)
                                    ELSE Frac(2 * zone_lows[z], 1),
                            text |-> item.zoneNames[z]]
                      ELSE blank
             ELSE blank

\* What AllPlotZoneLabel::draw paints for a label: nothing unless shading;
\* a label whose watts was never initialised is painted at any height.
LabelHeights == { Frac(n, 2) : n \in 0..8 }
ZoneLabelDraws(p, label) ==
    IF shadeZones(p)
    THEN IF label.assigned
         THEN { [text |-> label.text, watts |-> label.watts] }
         ELSE { [text |-> label.text, watts |-> w] : w \in LabelHeights }
    ELSE {}

\* -------------------------------------------------- refreshZoneLabels
refreshZoneLabels(p) ==
    LET item == p.rideItem
    IN  IF item # NullItem /\ item.hasZones /\ item.zoneRange >= 0
        THEN [p EXCEPT !.zoneLabels =
                [z \in 1..Len(item.zoneLows) |-> AllPlotZoneLabel(p, z - 1)]]
        ELSE [p EXCEPT !.zoneLabels = <<>>]

\* ------------------------------------------------------------ setYMax
\* QwtPlotCurve::maxYValue(): the largest y of the curve's data, and -1
\* (the bottom of Qwt's invalid bounding rectangle) for a curve without data.
MaxOf(ys) ==
    CHOOSE m \in { ys[k] : k \in 1..Len(ys) } :
        \A k \in 1..Len(ys) : ~FracGT(ys[k], m)

maxYValue(c) == IF c.y = <<>> THEN <<-1, 1>> ELSE MaxOf(c.y)

\* ylabel += QString((ylabel == "") ? "" : " / ") + unit
AddUnit(ylabel, unit) == ylabel \o (IF ylabel = "" THEN "" ELSE " / ") \o unit

\* LeftAxis with the cadence curve's maximum left out of ymax.
LeftAxisNoCad(p) ==
    LET a0 == [ymax |-> Zero, ylabel |-> ""]
        a1 == IF p.curve["watts"].visible
              THEN [ymax |-> max(a0.ymax, maxYValue(p.curve["watts"])),
                    ylabel |-> AddUnit(a0.ylabel, "Watts")]
              ELSE a0
        a2 == IF p.curve["hr"].visible
              THEN [ymax |-> max(a1.ymax, maxYValue(p.curve["hr"])),
                    ylabel |-> AddUnit(a1.ylabel, "BPM")]
              ELSE a1
        a3 == IF p.curve["cad"].visible
              THEN [ymax |-> a2.ymax, ylabel |-> AddUnit(a2.ylabel, "RPM")]
              ELSE a2
        a4 == IF p.curve["alt"].visible
              THEN [ymax |-> max(a3.ymax, maxYValue(p.curve["alt"])),
                    ylabel |-> AddUnit(a3.ylabel,
                                  IF p.useMetricUnits THEN "Meters" ELSE "Ft")]
              ELSE a3
    IN  a4

\* The left axis' ymax and ylabel after the four tests of setYMax.
LeftAxis(p) ==
    LET a0 == [ymax |-> Zero, ylabel |-> ""]
        a1 == IF p.curve["watts"].visible
              THEN [ymax |-> max(a0.ymax, maxYValue(p.curve["watts"])),
                    ylabel |-> AddUnit(a0.ylabel, "Watts")]
              ELSE a0
        a2 == IF p.curve["hr"].visible
              THEN [ymax |-> max(a1.ymax, maxYValue(p.curve["hr"])),
                    ylabel |-> AddUnit(a1.ylabel, "BPM")]
              ELSE a1
        a3 == IF p.curve["cad"].visible
              THEN [ymax |-> max(a2.ymax, maxYValue(p.curve["cad"])),
                    ylabel |-> AddUnit(a2.ylabel, "RPM")]
              ELSE a2
        a4 == IF p.curve["alt"].visible
              THEN [ymax |-> max(a3.ymax, maxYValue(p.curve["alt"])),
                    ylabel |-> AddUnit(a3.ylabel,
                                  IF p.useMetricUnits THEN "Meters" ELSE "Ft")]
              ELSE a3
    IN  a4

setYMax(p) ==
    LET a == LeftAxis(p)
    IN  [p EXCEPT !.yLeft = AxisScale(Frac(a.ymax[1] * 11, a.ymax[2] * 10)),
                  !.yLeftTitle = a.ylabel,
                  !.yRightEnabled = p.curve["speed"].visible,
                  !.yRightTitle = IF p.useMetricUnits THEN "KPH" ELSE "MPH"]

\* ----------------------------------------------------------- setXTitle
setXTitle(p) ==
    [p EXCEPT !.xTitle =
        IF p.bydist
        THEN "Distance " \o (IF p.useMetricUnits THEN "(km)" ELSE "(miles)")
        ELSE "Time (minutes)"]

\* -------------------------------------------------------------- recalc
\* v[secs] = x on a QVector indexed from 0.
SetAt(v, secs, x) == [v EXCEPT ![secs + 1] = x]

\* recalc()'s locals as its loops begin.
Locals(rideTimeSecs) ==
    [i |-> 0, list |-> <<>>,
     totalWatts |-> 0, totalHr |-> 0, totalSpeed |-> 0, totalCad |-> 0,
     totalDist |-> 0, totalAlt |-> 0,
     lastInterval |-> 0, interList |-> <<>>,
     smoothWatts |-> ZeroFracVector(rideTimeSecs + 1),
     smoothHr |-> ZeroFracVector(rideTimeSecs + 1),
     smoothSpeed |-> ZeroFracVector(rideTimeSecs + 1),
     smoothCad |-> ZeroFracVector(rideTimeSecs + 1),
     smoothAltitude |-> ZeroFracVector(rideTimeSecs + 1),
     smoothTime |-> ZeroVector(rideTimeSecs + 1),
     smoothDistance |-> ZeroVector(rideTimeSecs + 1)]

\* The first loop: every second below smooth and below rideTimeSecs gets
\* 0.0 in each smoothed array and secs / 60.0 in smoothTime.
LeadIn(p, rideTimeSecs, st) ==
    LET early(k) == (k - 1 < p.smooth) /\ (k - 1 < rideTimeSecs)
        Zeroed(v, zero) == [k \in 1..(rideTimeSecs + 1) |->
                              IF early(k) THEN zero ELSE v[k]]
    IN  [st EXCEPT !.smoothWatts = Zeroed(@, Zero),
                   !.smoothHr = Zeroed(@, Zero),
                   !.smoothSpeed = Zeroed(@, Zero),
                   !.smoothCad = Zeroed(@, Zero),
                   !.smoothTime = [k \in 1..(rideTimeSecs + 1) |->
                                     IF early(k) THEN k - 1 ELSE @[k]],
                   !.smoothDistance = Zeroed(@, 0),
                   !.smoothAltitude = Zeroed(@, Zero)]

\* Sample k (from 1) as a DataPoint.
DataPoint(p, k) ==
    [time  |-> p.timeArray[k],
     hr    |-> IF p.hrArray # <<>> THEN p.hrArray[k] ELSE 0,
     watts |-> IF p.wattsArray # <<>> THEN p.wattsArray[k] ELSE 0,
     speed |-> IF p.speedArray # <<>> THEN p.speedArray[k] ELSE 0,
     cad   |-> IF p.cadArray # <<>> THEN p.cadArray[k] ELSE 0,
     alt   |-> IF p.altArray # <<>> THEN p.altArray[k] ELSE 0,
     inter |-> p.interArray[k]]

\* The test of the loop that takes samples in: timeArray[i] <= secs.
Arrived(t, secs) == t <= SecsToTime(secs)

\* Expired with the boundary sample dropped too (<= for <).
ExpiredInclusive(t, secs, sm) == t <= SecsToTime(secs - sm)

\* The test of the loop that drops samples: front().time < secs - smooth.
Expired(t, secs, sm) == t < SecsToTime(secs - sm)

\* interList[secs/60.0] = inter; the key secs/60.0 is kept as secs.
Insert(interList, secs, inter) ==
    [k \in (DOMAIN interList) \cup {secs} |->
        IF k = secs THEN inter ELSE interList[k]]

\* The first inner loop: the samples up to second secs enter the window.
RECURSIVE TakeIn(_, _, _)
TakeIn(p, secs, st) ==
    IF st.i < p.arrayLength /\ Arrived(p.timeArray[st.i + 1], secs)
    THEN LET k == st.i + 1
             dp == DataPoint(p, k)
             changed == st.lastInterval # p.interArray[k]
         IN  TakeIn(p, secs,
                [st EXCEPT
                   !.totalWatts = IF p.wattsArray # <<>> THEN @ + p.wattsArray[k] ELSE @,
                   !.totalHr    = IF p.hrArray # <<>> THEN @ + p.hrArray[k] ELSE @,
                   !.totalSpeed = IF p.speedArray # <<>> THEN @ + p.speedArray[k] ELSE @,
                   !.totalCad   = IF p.cadArray # <<>> THEN @ + p.cadArray[k] ELSE @,
                   !.totalAlt   = IF p.altArray # <<>> THEN @ + p.altArray[k] ELSE @,
                   !.totalDist  = p.distanceArray[k],
                   !.list = Append(@, dp),
                   !.lastInterval = IF changed THEN p.interArray[k] ELSE @,
                   !.interList = IF changed
                                 THEN Insert(@, secs, p.interArray[k])
                                 ELSE @,
                   !.i = @ + 1])
    ELSE st

\* The second inner loop: the samples older than the window leave it.
RECURSIVE DropOut(_, _, _)
DropOut(p, secs, st) ==
    IF st.list # <<>> /\ Expired(Head(st.list).time, secs, p.smooth)
    THEN LET dp == Head(st.list)
         IN  DropOut(p, secs,
                [st EXCEPT !.totalWatts = @ - dp.watts,
                           !.totalHr    = @ - dp.hr,
                           !.totalSpeed = @ - dp.speed,
                           !.totalCad   = @ - dp.cad,
                           !.totalAlt   = @ - dp.alt,
                           !.list = Tail(@)])
    ELSE st

\* The smoothed values of second secs, from the window st holds.
Average(st, secs) ==
    LET n == Len(st.list)
        s1 == IF st.list = <<>>
              THEN [st EXCEPT !.smoothWatts = SetAt(@, secs, Zero),
                              !.smoothHr = SetAt(@, secs, Zero),
                              !.smoothSpeed = SetAt(@, secs, Zero),
                              !.smoothCad = SetAt(@, secs, Zero),
                              !.smoothAltitude = SetAt(@, secs, @[secs])]
              ELSE [st EXCEPT !.smoothWatts = SetAt(@, secs, Frac(st.totalWatts, n)),
                              !.smoothHr = SetAt(@, secs, Frac(st.totalHr, n)),
                              !.smoothSpeed = SetAt(@, secs, Frac(st.totalSpeed, n)),
                              !.smoothCad = SetAt(@, secs, Frac(st.totalCad, n)),
                              !.smoothAltitude = SetAt(@, secs, Frac(st.totalAlt, n))]
    IN  [s1 EXCEPT !.smoothDistance = SetAt(@, secs, st.totalDist),
                   !.smoothTime = SetAt(@, secs, secs)]

\* The main loop, from second secs on.
RECURSIVE Smooth(_, _, _, _)
Smooth(p, secs, rideTimeSecs, st) ==
    IF secs <= rideTimeSecs
    THEN Smooth(p, secs + 1, rideTimeSecs,
                Average(DropOut(p, secs, TakeIn(p, secs, st)), secs))
    ELSE st

\* The seconds whose key secs/60.0 does not come back from
\* int(ceil(60*time)) in IEEE doubles, among the first 128: there the
\* marker reads the next second's distance.
InexactSecs == {31, 62, 124, 125}
KeySecond(secs) == IF secs \in InexactSecs THEN secs + 1 ELSE secs

\* interList.keys(): the keys in ascending order.
RECURSIVE Ascending(_)
Ascending(S) ==
    IF S = {} THEN <<>>
    ELSE LET m == CHOOSE x \in S : \A y \in S : x <= y
         IN  <<m>> \o Ascending(S \ {m})

\* The markers recalc() attaches: one per key of interList.
Markers(p, st) ==
    LET keys == Ascending(DOMAIN st.interList)
    IN  [n \in 1..Len(keys) |->
            [value |-> IF ~p.bydist
                       THEN keys[n]
                       ELSE st.smoothDistance[KeySecond(keys[n]) + 1],
             label |-> ToString(st.interList[keys[n]])]]

\* curve->setData(data, data) with no data, where the series has samples.
ClearCurves(p) ==
    [p EXCEPT !.curve =
        [c \in Series |->
            IF ArrayOf(p, c) # <<>>
            THEN [p.curve[c] EXCEPT !.x = <<>>, !.y = <<>>]
            ELSE p.curve[c]]]

\* curve->setData(xaxis, smoothed, rideTimeSecs + 1), where the series has
\* samples, and the bottom axis.
SetCurves(p, st, rideTimeSecs) ==
    LET xaxis == IF p.bydist THEN st.smoothDistance ELSE st.smoothTime
        smoothed == [watts |-> st.smoothWatts, hr |-> st.smoothHr,
                     speed |-> st.smoothSpeed, cad |-> st.smoothCad,
                     alt |-> st.smoothAltitude]
    IN  [p EXCEPT
           !.curve =
              [c \in Series |->
                  IF ArrayOf(p, c) # <<>>
                  THEN [p.curve[c] EXCEPT !.x = SubSeq(xaxis, 1, rideTimeSecs + 1),
                                          !.y = SubSeq(smoothed[c], 1, rideTimeSecs + 1)]
                  ELSE p.curve[c]],
           !.xBottom = AxisScale(IF p.bydist
                                 THEN st.totalDist
                                 ELSE st.smoothTime[rideTimeSecs + 1])]

recalc(p) ==
    IF p.timeArray = <<>>
    THEN p
    ELSE LET rideTimeSecs == CeilSecs(p.timeArray[p.arrayLength])
         IN  IF rideTimeSecs > MaxRideSecs
             THEN ClearCurves(p)
             ELSE LET st == Smooth(p, p.smooth, rideTimeSecs,
                                   LeadIn(p, rideTimeSecs, Locals(rideTimeSecs)))
                      p1 == SetCurves(p, st, rideTimeSecs)
                      p2 == refreshZoneLabels(setYMax(p1))
                  IN  [p2 EXCEPT !.d_mrk = Markers(p, st)]

\* ------------------------------------------------------------- setData
StartTime(item) == "ride " \o ToString(item.id)

\* The sample arrays of a ride: an absent series has no array.
Samples(present, values) == IF present THEN values ELSE <<>>

Speed(metric, kph) == max0(IF metric THEN kph * UnitKm ELSE kph * MilesPerKm)
Altitude(metric, alt) == max0(IF metric THEN alt * UnitM ELSE alt * FeetPerM)
Distance(metric, km) == max0(IF metric THEN km * UnitKm ELSE km * MilesPerKm)

\* wattsArray.clear() as setData begins.
ClearedWatts(p) == <<>>

Detached(curves) == [c \in Series |-> [curves[c] EXCEPT !.attached = FALSE]]

setData(p, item) ==
    LET p0 == [p EXCEPT !.rideItem = item, !.wattsArray = ClearedWatts(p)]
    IN  IF item.hasRide
        THEN LET present == item.dataPresent
                 points == item.points
                 Watts(pt) == max0(pt.watts)
                 Hr(pt) == max0(pt.hr)
                 Kph(pt) == Speed(p.useMetricUnits, pt.kph)
                 Cad(pt) == max0(pt.cad)
                 Alt(pt) == Altitude(p.useMetricUnits, pt.alt)
                 Secs(pt) == pt.secs
                 Inter(pt) == pt.interval
                 Km(pt) == Distance(p.useMetricUnits, pt.km)
                 p1 == [p0 EXCEPT
                          !.title = StartTime(item),
                          !.wattsArray = Samples(present.watts, [k \in 1..Len(points) |-> Watts(points[k])]),
                          !.hrArray = Samples(present.hr, [k \in 1..Len(points) |-> Hr(points[k])]),
                          !.speedArray = Samples(present.kph, [k \in 1..Len(points) |-> Kph(points[k])]),
                          !.cadArray = Samples(present.cad, [k \in 1..Len(points) |-> Cad(points[k])]),
                          !.altArray = Samples(present.alt, [k \in 1..Len(points) |-> Alt(points[k])]),
                          !.timeArray = Samples(TRUE, [k \in 1..Len(points) |-> Secs(points[k])]),
                          !.interArray = Samples(TRUE, [k \in 1..Len(points) |-> Inter(points[k])]),
                          !.distanceArray = Samples(TRUE, [k \in 1..Len(points) |-> Km(points[k])]),
                          !.arrayLength = Len(points)]
                 p2 == [p1 EXCEPT
                          !.curve = [c \in Series |->
                                       [p1.curve[c] EXCEPT
                                          !.attached = ArrayOf(p1, c) # <<>>]]]
             IN  recalc(p2)
        ELSE [p0 EXCEPT !.title = "no data", !.curve = Detached(p0.curve)]

\* ----------------------------------------------------- the show slots
\* Qt::Unchecked and Qt::Checked; Qt::PartiallyChecked (1) is asserted out.
QtUnchecked == 0
QtChecked == 2

SetVisible(p, c, on) == [p EXCEPT !.curve[c].visible = on]

showPower(p, id) ==
    recalc(setYMax([SetVisible(p, "watts", id < 2) EXCEPT !.shade_zones = (id = 0)]))

showHr(p, state) == setYMax(SetVisible(p, "hr", state = QtChecked))

showSpeed(p, state) == setYMax(SetVisible(p, "speed", state = QtChecked))

showCad(p, state) == setYMax(SetVisible(p, "cad", state = QtChecked))

showAlt(p, state) == setYMax(SetVisible(p, "alt", state = QtChecked))

showGrid(p, state) == [p EXCEPT !.grid = (state = QtChecked)]

setSmoothing(p, value) == recalc([p EXCEPT !.smooth = value])

setByDistance(p, id) == recalc(setXTitle([p EXCEPT !.bydist = (id = 1)]))

\* -------------------------------------------------------- the actions
\* The ids of the power combo box: shade, no shade, no power.
PowerIds == 0..2
CheckStates == {QtUnchecked, QtChecked}
SmoothValues == 1..MaxSmooth
DistanceIds == 0..1

Returns(p) ==
    /\ Becomes(p)
    /\ UNCHANGED library

SetData ==
    \E item \in library :
        Returns(setData(This, item)) /\ UNCHANGED powerId

ShowPower ==
    \E id \in PowerIds :
        Returns(showPower(This, id)) /\ powerId' = id

ShowHr ==
    \E state \in CheckStates :
        Returns(showHr(This, state)) /\ UNCHANGED powerId

ShowSpeed ==
    \E state \in CheckStates :
        Returns(showSpeed(This, state)) /\ UNCHANGED powerId

ShowCad ==
    \E state \in CheckStates :
        Returns(showCad(This, state)) /\ UNCHANGED powerId

ShowAlt ==
    \E state \in CheckStates :
        Returns(showAlt(This, state)) /\ UNCHANGED powerId

ShowGrid ==
    \E state \in CheckStates :
        Returns(showGrid(This, state)) /\ UNCHANGED powerId

SetSmoothing ==
    \E value \in SmoothValues :
        Returns(setSmoothing(This, value)) /\ UNCHANGED powerId

SetByDistance ==
    \E id \in DistanceIds :
        Returns(setByDistance(This, id)) /\ UNCHANGED powerId

\* AllPlot::AllPlot(): the plot as constructed, before any ride is set.
Constructed ==
    /\ useMetricUnits \in BOOLEAN
    /\ rideItem = NullItem
    /\ smooth = DefaultSmooth
    /\ bydist = FALSE
    /\ shade_zones = FALSE
    /\ timeArray = <<>> /\ wattsArray = <<>> /\ hrArray = <<>>
    /\ speedArray = <<>> /\ cadArray = <<>> /\ altArray = <<>>
    /\ interArray = <<>> /\ distanceArray = <<>>
    /\ arrayLength = 0
    /\ curve = [c \in Series |-> NewCurve]
    /\ grid = TRUE
    /\ title = ""
    /\ xBottom = AutoScale(0)
    /\ xTitle = "Time (minutes)"
    /\ yLeft = AutoScale(Zero)
    /\ yLeftTitle = ""
    /\ yRightEnabled = FALSE
    /\ yRightTitle = ""
    /\ d_mrk = <<>>
    /\ zoneLabels = <<>>
    /\ powerId = -1

\* The plot window: every slot, on rides that differ in power and zones.
Init == Constructed /\ useMetricUnits /\ library = ZoneRides

Next ==
    \/ SetData
    \/ ShowPower
    \/ ShowHr
    \/ ShowSpeed
    \/ ShowCad
    \/ ShowAlt
    \/ ShowGrid
    \/ SetSmoothing
    \/ SetByDistance

Spec == Init /\ [][Next]_vars

\* The curves and the axes: the show slots, on rides that differ in their
\* series, under either unit setting.
InitAxes == Constructed /\ library = AxisRides

NextAxes ==
    \/ SetData
    \/ ShowPower
    \/ ShowHr
    \/ ShowSpeed
    \/ ShowCad
    \/ ShowAlt
    \/ SetSmoothing

SpecAxes == InitAxes /\ [][NextAxes]_vars

\* Ride selection alone: setData after setData.
InitLoad == Constructed /\ library = Catalogue

NextLoad == SetData

SpecLoad == InitLoad /\ [][NextLoad]_vars

\* One ride, drawn from the generated rides, under the smoothing and the
\* x-axis controls.
InitRecalc == Constructed /\ library \in { {item} : item \in GeneratedItems }

NextRecalc ==
    \/ SetData
    \/ SetSmoothing
    \/ SetByDistance

SpecRecalc == InitRecalc /\ [][NextRecalc]_vars

\* ================================================================ properties
\* The ride the sample arrays hold is one recalc() plots: it has samples
\* and lasts at most 7 days.
RideTimeSecs == CeilSecs(timeArray[arrayLength])
Plotted == timeArray # <<>> /\ RideTimeSecs <= MaxRideSecs
HasSamples(c) == ArrayOf(This, c) # <<>>

\* The samples of the window of grid second s: s - smooth <= time <= s.
InWindow(k, s) ==
    /\ SecsToTime(s - smooth) <= timeArray[k]
    /\ timeArray[k] <= SecsToTime(s)

RECURSIVE WindowSum(_, _, _)
WindowSum(array, s, k) ==
    IF k = 0 THEN 0
    ELSE WindowSum(array, s, k - 1) + (IF InWindow(k, s) THEN array[k] ELSE 0)

WindowCount(s) == Cardinality({ k \in 1..arrayLength : InWindow(k, s) })

WindowMean(array, s) ==
    IF WindowCount(s) = 0
    THEN Zero
    ELSE Frac(WindowSum(array, s, arrayLength), WindowCount(s))

C2_UniformGrid ==
    Plotted =>
        \A c \in Series :
            HasSamples(c) =>
                /\ Len(curve[c].x) = RideTimeSecs + 1
                /\ Len(curve[c].y) = RideTimeSecs + 1
                /\ ~bydist => \A k \in 0..RideTimeSecs : curve[c].x[k + 1] = k

\* C3: after recalc on a plotted ride, for every smoothing value, the
\* bottom axis runs from 0 to rideTimeSecs/60 in time mode and to the
\* converted, clamped distance of the ride's last sample in distance mode.
C3_BottomAxisRange ==
    Plotted =>
        xBottom = AxisScale(IF bydist
                            THEN distanceArray[arrayLength]
                            ELSE RideTimeSecs)

\* The samples that change the interval, 0 being the interval before the
\* first sample, in sample order.
IntervalBefore(k) == IF k = 1 THEN 0 ELSE interArray[k - 1]
RECURSIVE IntervalChanges(_)
IntervalChanges(k) ==
    IF k = 0 THEN <<>>
    ELSE IntervalChanges(k - 1) \o
         (IF interArray[k] # IntervalBefore(k) THEN <<k>> ELSE <<>>)

\* The x values of the grid, as the curves hold them.
GridX(sec) == curve[CHOOSE c \in Series : HasSamples(c)].x[sec + 1]

\* C4: after recalc on a plotted ride the interval markers correspond one
\* to one to the ride's interval changes; each carries the new interval
\* number and stands at the first grid second at or after the sample's
\* time (that time in minutes, or the grid distance at that second).
C4_IntervalMarkers ==
    (Plotted /\ \E c \in Series : HasSamples(c)) =>
        LET changes == IntervalChanges(arrayLength)
        IN  d_mrk = [n \in 1..Len(changes) |->
                        LET sec == CeilSecs(timeArray[changes[n]])
                        IN  [value |-> IF bydist THEN GridX(sec) ELSE sec,
                             label |-> ToString(interArray[changes[n]])]]

\* The ride item setData received last has power samples; it has zones.
HasPowerData(item) ==
    item.hasRide /\ item.dataPresent.watts /\ item.points # <<>>
NumZones(item) ==
    IF item.hasZones /\ item.zoneRange >= 0 THEN Len(item.zoneLows) ELSE 0

\* C5: in every reachable state the background paints zone bands exactly
\* when the last showPower chose id 0, the ride of the last setData has
\* power data and its item has at least one zone in a zone range >= 0; and
\* shading on implies that the power curve is visible.
C5_ShadingGate ==
    /\ (BackgroundBands(This) # {}) <=>
           (powerId = 0 /\ HasPowerData(rideItem) /\ NumZones(rideItem) > 0)
    /\ BackgroundBands(This) = 0..(NumZones(rideItem) - 1) \/ BackgroundBands(This) = {}
    /\ shadeZones(This) => curve["watts"].visible

\* C5's case: bands are painted after the controls have been used: a
\* curve hidden, the smoothing and the x axis changed.
C5_Witness ==
    /\ BackgroundBands(This) = {0, 1, 2}
    /\ powerId = 0
    /\ ~curve["hr"].visible
    /\ bydist /\ smooth # DefaultSmooth /\ ~grid

\* What the label of zone z (from 1) of an item shows: the zone's name,
\* midway between the zone's low and the next; for the top zone at
\* 1.5 low - 0.5 previous low; for a single zone at twice its low.
ExpectedLabel(item, z) ==
    LET lows == item.zoneLows
    IN  [text |-> item.zoneNames[z],
         watts |-> IF z < Len(lows) THEN Frac(lows[z] + lows[z + 1], 2)
                   ELSE IF z > 1 THEN Frac(3 * lows[z] - lows[z - 1], 2)
                   ELSE Frac(4 * lows[z], 2)]

\* C6: whenever shadeZones() holds there is exactly one attached label per
\* zone of the current ride's zone range, and each is drawn with the text
\* and at the height computed from the current ride's zones: no label of
\* an earlier ride, and none built while shading was off, is drawn.
C6_ZoneLabels ==
    shadeZones(This) =>
        /\ Len(zoneLabels) = NumZones(rideItem)
        /\ \A z \in 1..Len(zoneLabels) :
              /\ zoneLabels[z].zone_number = z - 1
              /\ ZoneLabelDraws(This, zoneLabels[z]) = {ExpectedLabel(rideItem, z)}

\* The units of the visible curves of the left axis, in its fixed order.
LeftUnits ==
    (IF curve["watts"].visible THEN <<"Watts">> ELSE <<>>) \o
    (IF curve["hr"].visible THEN <<"BPM">> ELSE <<>>) \o
    (IF curve["cad"].visible THEN <<"RPM">> ELSE <<>>) \o
    (IF curve["alt"].visible
     THEN <<IF useMetricUnits THEN "Meters" ELSE "Ft">> ELSE <<>>)

RECURSIVE Joined(_)
Joined(units) ==
    IF units = <<>> THEN ""
    ELSE IF Len(units) = 1 THEN units[1]
    ELSE units[1] \o " / " \o Joined(Tail(units))

\* No double below 0 and none below the maximum of a visible curve of the
\* left axis; b is one of these.
LeftCurves == { c \in {"watts", "hr", "cad", "alt"} : curve[c].visible }
IsLeftMaximum(b) ==
    /\ ~FracGT(Zero, b)
    /\ \A c \in LeftCurves : ~FracGT(maxYValue(curve[c]), b)
    /\ b = Zero \/ \E c \in LeftCurves : b = maxYValue(curve[c])

AxesDerived ==
    /\ yLeftTitle = Joined(LeftUnits)
    /\ yLeft.set
    /\ \E b \in {Zero} \cup { maxYValue(curve[c]) : c \in LeftCurves } :
           IsLeftMaximum(b) /\ yLeft.hi = Frac(11 * b[1], 10 * b[2])
    /\ yRightEnabled = curve["speed"].visible
    /\ yRightTitle = (IF useMetricUnits THEN "KPH" ELSE "MPH")

\* A step of one of the five show slots. (Each slot leaves the ride, the
\* smoothing and the other curves' visibility alone: the tests before a
\* slot's action follow from it, and spare evaluating it on other steps.)
OnlyShows(c) ==
    /\ rideItem' = rideItem /\ smooth' = smooth /\ timeArray' = timeArray
    /\ \A o \in Series \ {c} : curve'[o].visible = curve[o].visible
ShowStep ==
    \/ OnlyShows("watts") /\ ShowPower
    \/ OnlyShows("hr") /\ powerId' = powerId /\ ShowHr
    \/ OnlyShows("speed") /\ powerId' = powerId /\ ShowSpeed
    \/ OnlyShows("cad") /\ powerId' = powerId /\ ShowCad
    \/ OnlyShows("alt") /\ powerId' = powerId /\ ShowAlt
LongRideLoaded == timeArray # <<>> /\ RideTimeSecs > MaxRideSecs

\* C7: right after showPower, showHr, showSpeed, showCad or showAlt, with
\* no ride longer than 7 days loaded, the left axis title lists the units
\* of the visible curves among power, heart rate, cadence and altitude in
\* that order, joined by " / "; the left axis runs from 0 to a bound taken
\* from the maxima of those curves alone; the right axis is enabled
\* exactly when the speed curve is visible, titled KPH or MPH.
C7_AxisDerivation ==
    [][(ShowStep /\ ~LongRideLoaded') => AxesDerived']_vars

\* C7's case: heart rate hidden by showHr on a plotted ride in imperial
\* units, the axes following.
C7_Witness ==
    /\ Plotted /\ ~useMetricUnits
    /\ ~curve["hr"].visible /\ curve["speed"].visible
    /\ yLeftTitle = "Watts / RPM / Ft"
    /\ yRightEnabled /\ yRightTitle = "MPH"
    /\ yLeft.set /\ yLeft.hi # Zero
    /\ AxesDerived

\* C8: after any sequence of setData calls each of the five curves is
\* attached exactly when its sample array is not empty.
C8_CurveAttachment ==
    \A c \in Series : curve[c].attached <=> HasSamples(c)

\* The markers recalc() derives from the sample arrays as they stand.
DerivedMarkers ==
    Markers(This, Smooth(This, smooth, RideTimeSecs,
                         LeadIn(This, RideTimeSecs, Locals(RideTimeSecs))))

RideIsPlotted(item) ==
    /\ item.hasRide /\ item.points # <<>>
    /\ CeilSecs(item.points[Len(item.points)].secs) <= MaxRideSecs

\* C9: after every setData the attached markers are those of the ride
\* just loaded, none when the item has no ride, no samples or more than 7
\* days; no marker of an earlier ride stays attached.
C9_NoStaleMarkers ==
    d_mrk = IF RideIsPlotted(rideItem) THEN DerivedMarkers ELSE <<>>

====
